---------------------------- MODULE Spec2Model ----------------------------
(***************************************************************************)
(* A model of seatingchart.SeatingChart (src/seatingchart.py).             *)
(*                                                                         *)
(* Python values are encoded as follows.                                   *)
(*   list            a sequence                                            *)
(*   pair            a two-element list <<x, y>>                           *)
(*   Optional value  None is <<>>, a present value v is <<v>>              *)
(*   exception       the name of its class; "none" when the call returned  *)
(* `self' is the record of the object's public attributes; `chart' is the  *)
(* private attribute __chart.                                              *)
(***************************************************************************)
EXTENDS Integers, Sequences, FiniteSets

VARIABLES
    roster,      \* self.roster      (the constructor's argument until constructed)
    together,    \* self.together    (idem)
    apart,       \* self.apart       (idem)
    max_size,    \* self.max_size    (idem)
    num_groups,  \* self.num_groups  (idem)
    chart,       \* self.__chart
    pc,          \* "args": not yet constructed; "ready": constructed; "failed": __init__ raised
    op,          \* the last operation called
    exc,         \* the exception the last operation raised, "none" if it returned
    ret,         \* the value the last operation returned (Optional)
    gen,         \* the stage charts the last operation's __generate_chart computed
    nested       \* the chart handed to a direct call of __balance_nested_list

vars == <<roster, together, apart, max_size, num_groups, chart, pc, op, exc, ret, gen, nested>>

---------------------------------------------------------------------------
(* Bounds of the model.                                                    *)

\* Largest value drawn for max_size (0 is drawn too: an invalid value).
MaxSize == 2
\* Largest value drawn for num_groups (0 is drawn too: an invalid value).
MaxGroups == 2
\* Life-cycle model: the longest roster the caller gives (of individuals no
\* pair names).
MaxRoster == 2
\* Pipeline model: the individuals the pairs name (one more is unconstrained),
\* the longest together and apart lists, and the largest max_size.
PipeNames == 4
PipeTogether == 3
PipeApart == 2
PipeSize == 2
\* Constructor model: the longest together or apart list.
CtorPairs == 2
\* Roster model: the longest roster the caller gives and the longest together
\* or apart list.
RosterLen == 3
RosterPairs == 1
\* Balancer model: the most groups and the largest group of the chart handed
\* to one step, and the largest limit.
MaxNestedGroups == 3
MaxNestedSize == 4

---------------------------------------------------------------------------
(* Encoding helpers.                                                       *)

None == <<>>
Some(v) == <<v>>
Val(o) == o[1]

Range(s) == {s[i] : i \in DOMAIN s}

Min(S) == CHOOSE x \in S : \A y \in S : x <= y
Max(S) == CHOOSE x \in S : \A y \in S : y <= x

\* The names individuals are drawn from, in lexicographic order.
Names == <<"A", "B", "C", "D", "E", "F">>
Rank(x) == CHOOSE i \in DOMAIN Names : Names[i] = x

RECURSIVE Perms(_)
\* Every ordering of the finite set S: the order in which Python iterates a
\* set of strings, and the outcome of random.shuffle.
Perms(S) ==
    IF S = {} THEN {<<>>}
    ELSE UNION {{<<x>> \o p : p \in Perms(S \ {x})} : x \in S}

\* list.remove(x): the list without its first element equal to x.
ListRemove(s, x) ==
    LET hits == {i \in DOMAIN s : s[i] = x}
    IN  IF hits = {} THEN s
        ELSE LET k == Min(hits)
             IN  [i \in 1..(Len(s) - 1) |-> IF i < k THEN s[i] ELSE s[i + 1]]

\* Every individual of a chart: set(itertools.chain(*chart)).
Placed(c) == UNION {Range(c[i]) : i \in DOMAIN c}

Ok(c) == [exc |-> "none", chart |-> c]
Raise(e) == [exc |-> e, chart |-> <<>>]

\* The object: the attributes the methods read through `self'.
self == [roster |-> roster, together |-> together, apart |-> apart,
         max_size |-> max_size, num_groups |-> num_groups]

---------------------------------------------------------------------------
(* Validation methods.                                                     *)

\* __validate_integer_inputs: None or a positive int is returned, an int
\* below 1 raises PositiveInteger.
validate_integer_inputs(number) ==
    IF number = None THEN [exc |-> "none", v |-> None]
    ELSE IF Val(number) < 1 THEN [exc |-> "PositiveInteger", v |-> None]
    ELSE [exc |-> "none", v |-> number]

\* A variant of __validate_together_apart that compares the pairs as lists
\* (pair_1 == pair_2) instead of as sets.
validate_together_apart_as_lists(tg, ap) ==
    IF tg = None \/ ap = None THEN [exc |-> "none", together |-> tg, apart |-> ap]
    ELSE IF \E i \in DOMAIN Val(tg), j \in DOMAIN Val(ap) : Val(tg)[i] = Val(ap)[j]
         THEN [exc |-> "GroupConflict", together |-> None, apart |-> None]
         ELSE [exc |-> "none", together |-> tg, apart |-> ap]

\* __validate_together_apart: GroupConflict when a pair of `together' and a
\* pair of `apart' are equal as sets; otherwise the (copied) lists.
validate_together_apart(tg, ap) ==
    IF tg = None \/ ap = None THEN [exc |-> "none", together |-> tg, apart |-> ap]
    ELSE IF \E i \in DOMAIN Val(tg), j \in DOMAIN Val(ap) :
                Range(Val(tg)[i]) = Range(Val(ap)[j])
         THEN [exc |-> "GroupConflict", together |-> None, apart |-> None]
         ELSE [exc |-> "none", together |-> tg, apart |-> ap]

RECURSIVE SortedNames(_)
\* sorted(S) for a set of names.
SortedNames(S) ==
    IF S = {} THEN <<>>
    ELSE LET x == CHOOSE a \in S : \A b \in S : Rank(a) <= Rank(b)
         IN  <<x>> \o SortedNames(S \ {x})

\* A variant of __validate_roster that returns the roster as given when the
\* pairs name nobody outside it.
validate_roster_when_missing(ro, tg, ap) ==
    LET named(ps) == IF ps = None THEN {}
                     ELSE UNION {Range(Val(ps)[i]) : i \in DOMAIN Val(ps)}
        all_together_apart == named(tg) \cup named(ap)
        given == IF ro = None THEN {} ELSE Range(Val(ro))
    IN  IF all_together_apart \subseteq given THEN ro
        ELSE Some(SortedNames(given \cup all_together_apart))

\* __validate_roster: the roster as given when the pairs name nobody, else
\* the sorted union of the roster and everybody the pairs name.
validate_roster(ro, tg, ap) ==
    LET named(ps) == IF ps = None THEN {}
                     ELSE UNION {Range(Val(ps)[i]) : i \in DOMAIN Val(ps)}
        all_together_apart == named(tg) \cup named(ap)
    IN  IF all_together_apart = {} THEN ro
        ELSE Some(SortedNames((IF ro = None THEN {} ELSE Range(Val(ro)))
                              \cup all_together_apart))

\* A variant of __validate_group_size that is off by one: it lets a group of
\* max_size + 1 members through.
validate_group_size_off_by_one(s, c) ==
    IF c = <<>> THEN "none"
    ELSE IF s.max_size # None
            /\ Val(s.max_size) + 1 < Max({Len(c[i]) : i \in DOMAIN c})
         THEN "ValueError"
         ELSE "none"

\* __validate_group_size: raises ValueError when max_size is set and the
\* largest group of a non-empty chart exceeds it.
validate_group_size(s, c) ==
    IF c = <<>> THEN "none"
    ELSE IF s.max_size # None
            /\ Val(s.max_size) < Max({Len(c[i]) : i \in DOMAIN c})
         THEN "ValueError"
         ELSE "none"

\* __validate_number_of_groups: raises InvalidRequest when num_groups is set
\* and the chart has more groups.
validate_number_of_groups(s, c) ==
    IF s.num_groups # None /\ Val(s.num_groups) < Len(c)
    THEN "InvalidRequest"
    ELSE "none"

---------------------------------------------------------------------------
(* Chart generation: the Pairer.                                           *)

\* One iteration of the loop of __handle_together: the list `groups' after
\* `pair'.  The merged group is list(set(pair) | set(group)), whose order is
\* the set's iteration order: every ordering is possible.
together_step(groups, pair) ==
    IF groups = <<>> THEN {<<pair>>}
    ELSE LET hits == {i \in DOMAIN groups : Range(pair) \cap Range(groups[i]) # {}}
         IN  IF hits = {} THEN {Append(groups, pair)}
             ELSE LET group == groups[Min(hits)]
                  IN  {Append(ListRemove(groups, group), group_pair_union) :
                         group_pair_union \in Perms(Range(pair) \cup Range(group))}

RECURSIVE together_loop(_, _)
\* The loop of __handle_together over `pairs', from each list of G.
together_loop(G, pairs) ==
    IF pairs = <<>> THEN G
    ELSE together_loop(UNION {together_step(groups, Head(pairs)) : groups \in G},
                       Tail(pairs))

RECURSIVE by_len_from(_, _)
\* The groups of length n, then those of length n - 1, ..., each length in
\* the order of the list.
by_len_from(groups, n) ==
    LET HasLen(g) == Len(g) = n
    IN  IF n < 0 THEN <<>>
        ELSE SelectSeq(groups, HasLen) \o by_len_from(groups, n - 1)

\* sorted(groups, key=len, reverse=True): a stable sort, longest group first.
sorted_by_len(groups) ==
    IF groups = <<>> THEN <<>>
    ELSE by_len_from(groups, Max({Len(groups[i]) : i \in DOMAIN groups}))

\* __handle_together: the charts the Pairer can return.
handle_together(s) ==
    IF s.together = None THEN {<<>>}
    ELSE {sorted_by_len(groups) : groups \in together_loop({<<>>}, Val(s.together))}

---------------------------------------------------------------------------
(* Chart generation: the Separator.                                        *)

\* __get_nested_index: the (0-based) index of the group holding `item', None
\* when no group holds it, ValueError when several do.
get_nested_index(item, c) ==
    LET index == {i \in DOMAIN c : item \in Range(c[i])}
    IN  IF Cardinality(index) = 0 THEN [exc |-> "none", v |-> None]
        ELSE IF Cardinality(index) = 1
             THEN [exc |-> "none",
                   v |-> Some(Min({j \in DOMAIN c : c[j] = c[Min(index)]}) - 1)]
             ELSE [exc |-> "ValueError", v |-> None]

\* Whether __append_item may add `item' to `group': the group does not hold
\* the item, holds no partner of an apart pair of the item, and is not full.
can_append(s, item, group) ==
    /\ item \notin Range(group)
    /\ \A k \in DOMAIN Val(s.apart) :
          LET apart_pair == Val(s.apart)[k]
          IN  item \in Range(apart_pair)
                 => ListRemove(apart_pair, item)[1] \notin Range(group)
    /\ ~(s.max_size # None /\ Len(group) >= Val(s.max_size))

\* __append_item: the item joins the first group that can take it, else a
\* new group at the end.
append_item(s, item, c) ==
    LET eligible == {i \in DOMAIN c : can_append(s, item, c[i])}
    IN  IF eligible = {} THEN Append(c, <<item>>)
        ELSE [c EXCEPT ![Min(eligible)] = Append(@, item)]

\* One iteration of the loop of __handle_apart.
apart_step(s, c, pair) ==
    LET item_1 == pair[1]
        item_2 == pair[2]
        r1 == get_nested_index(item_1, c)
        r2 == get_nested_index(item_2, c)
        item_1_index == r1.v
        item_2_index == r2.v
    IN  IF r1.exc # "none" THEN Raise(r1.exc)
        ELSE IF r2.exc # "none" THEN Raise(r2.exc)
        ELSE IF c = <<>> THEN Ok(<<<<item_1>>, <<item_2>>>>)
        ELSE IF item_1_index # None /\ item_2_index # None
                /\ item_1_index # item_2_index
             THEN Ok(c)
        ELSE IF (item_1_index = None) # (item_2_index = None)
             THEN Ok(append_item(s, IF item_1_index = None THEN item_1 ELSE item_2, c))
        ELSE IF item_1_index = None /\ item_2_index = None
             THEN Ok(append_item(s, item_2, append_item(s, item_1, c)))
        ELSE Ok(c)

RECURSIVE apart_loop(_, _, _)
\* The loop of __handle_apart over `pairs'.
apart_loop(s, c, pairs) ==
    IF pairs = <<>> THEN Ok(c)
    ELSE LET r == apart_step(s, c, Head(pairs))
         IN  IF r.exc # "none" THEN r ELSE apart_loop(s, r.chart, Tail(pairs))

\* __handle_apart.
handle_apart(s, c) ==
    IF s.apart = None THEN Ok(c) ELSE apart_loop(s, c, Val(s.apart))

---------------------------------------------------------------------------
(* Chart generation: the Balancer.                                         *)

\* A variant of __balance_nested_list without the branch that opens a group
\* while num_groups is not reached.
balance_without_num_groups(s, item, c) ==
    IF c = <<>> THEN Ok(<<<<item>>>>)
    ELSE
    LET group_sizes == [i \in DOMAIN c |-> Len(c[i])]
        all_same_len == Cardinality(Range(group_sizes)) = 1
        max_group_size == Max(Range(group_sizes))
        index_min_size == Min({i \in DOMAIN c : group_sizes[i] = Min(Range(group_sizes))})
    IN  IF s.max_size # None /\ Val(s.max_size) < max_group_size
        THEN Raise("InvalidRequest")
        ELSE IF s.max_size # None /\ all_same_len /\ Val(s.max_size) <= max_group_size
        THEN Ok(Append(c, <<item>>))
        ELSE Ok([c EXCEPT ![index_min_size] = Append(@, item)])

\* A variant of __balance_nested_list that opens a group for full groups
\* only when max_size < max_group_size (instead of <=).
balance_strict_max_size(s, item, c) ==
    IF c = <<>> THEN Ok(<<<<item>>>>)
    ELSE
    LET group_sizes == [i \in DOMAIN c |-> Len(c[i])]
        all_same_len == Cardinality(Range(group_sizes)) = 1
        max_group_size == Max(Range(group_sizes))
        num_current_groups == Len(c)
        index_min_size == Min({i \in DOMAIN c : group_sizes[i] = Min(Range(group_sizes))})
    IN  IF s.max_size # None /\ Val(s.max_size) < max_group_size
        THEN Raise("InvalidRequest")
        ELSE IF s.num_groups # None /\ num_current_groups < Val(s.num_groups)
        THEN Ok(Append(c, <<item>>))
        ELSE IF s.max_size # None /\ all_same_len /\ Val(s.max_size) < max_group_size
        THEN Ok(Append(c, <<item>>))
        ELSE Ok([c EXCEPT ![index_min_size] = Append(@, item)])

\* A variant of __balance_nested_list that fills the last smallest group
\* instead of the first.
balance_last_smallest(s, item, c) ==
    IF c = <<>> THEN Ok(<<<<item>>>>)
    ELSE
    LET group_sizes == [i \in DOMAIN c |-> Len(c[i])]
        all_same_len == Cardinality(Range(group_sizes)) = 1
        max_group_size == Max(Range(group_sizes))
        num_current_groups == Len(c)
        index_min_size == Max({i \in DOMAIN c : group_sizes[i] = Min(Range(group_sizes))})
    IN  IF s.max_size # None /\ Val(s.max_size) < max_group_size
        THEN Raise("InvalidRequest")
        ELSE IF s.num_groups # None /\ num_current_groups < Val(s.num_groups)
        THEN Ok(Append(c, <<item>>))
        ELSE IF s.max_size # None /\ all_same_len /\ Val(s.max_size) <= max_group_size
        THEN Ok(Append(c, <<item>>))
        ELSE Ok([c EXCEPT ![index_min_size] = Append(@, item)])

\* __balance_nested_list.
balance_nested_list(s, item, c) ==
    IF c = <<>> THEN Ok(<<<<item>>>>)
    ELSE
    LET group_sizes == [i \in DOMAIN c |-> Len(c[i])]
        all_same_len == Cardinality(Range(group_sizes)) = 1
        max_group_size == Max(Range(group_sizes))
        num_current_groups == Len(c)
        index_min_size == Min({i \in DOMAIN c : group_sizes[i] = Min(Range(group_sizes))})
    IN  IF s.max_size # None /\ Val(s.max_size) < max_group_size
        THEN Raise("InvalidRequest")
        ELSE IF /\ s.num_groups # None
                /\ s.max_size # None
                /\ Val(s.num_groups) < num_current_groups
                /\ Val(s.max_size) < max_group_size
        THEN Raise("GroupConflict")
        ELSE IF s.num_groups # None /\ num_current_groups < Val(s.num_groups)
        THEN Ok(Append(c, <<item>>))
        ELSE IF s.max_size # None /\ all_same_len /\ Val(s.max_size) <= max_group_size
        THEN Ok(Append(c, <<item>>))
        ELSE Ok([c EXCEPT ![index_min_size] = Append(@, item)])

RECURSIVE remaining_loop(_, _, _)
\* The loop of __handle_remaining over the shuffled list `remaining'.
remaining_loop(s, c, remaining) ==
    IF remaining = <<>> THEN Ok(c)
    ELSE LET r == balance_nested_list(s, Head(remaining), c)
         IN  IF r.exc # "none" THEN r ELSE remaining_loop(s, r.chart, Tail(remaining))

\* __handle_remaining: the outcomes the Balancer can have, one per shuffle.
\* set(None) raises TypeError.
handle_remaining(s, c) ==
    IF s.roster = None THEN {Raise("TypeError")}
    ELSE {remaining_loop(s, c, remaining) :
            remaining \in Perms(Range(Val(s.roster)) \ Placed(c))}

---------------------------------------------------------------------------
(* Chart generation.                                                       *)

\* __generate_chart from the Pairer's chart_1: the exception raised ("none"
\* when the chart is returned) and the stage charts computed.
generate_from(s, chart_1) ==
    LET r2 == handle_apart(s, chart_1)
    IN  IF r2.exc # "none" THEN {[exc |-> r2.exc, gen |-> <<chart_1>>]}
        ELSE IF validate_group_size(s, r2.chart) # "none"
        THEN {[exc |-> validate_group_size(s, r2.chart), gen |-> <<chart_1, r2.chart>>]}
        ELSE {IF r3.exc # "none"
              THEN [exc |-> r3.exc, gen |-> <<chart_1, r2.chart>>]
              ELSE [exc |-> validate_number_of_groups(s, r3.chart),
                    gen |-> <<chart_1, r2.chart, r3.chart>>] :
                r3 \in handle_remaining(s, r2.chart)}

\* __generate_chart: every outcome of a generation.
generate_chart(s) ==
    UNION {generate_from(s, chart_1) : chart_1 \in handle_together(s)}

---------------------------------------------------------------------------
(* The operations.                                                         *)

\* SeatingChart.__init__: the arguments are validated in the order together
\* and apart, max_size, num_groups, roster; the first failure is raised and
\* no object exists.
Construct ==
    /\ pc = "args"
    /\ LET ta == validate_together_apart(together, apart)
           ms == validate_integer_inputs(max_size)
           ng == validate_integer_inputs(num_groups)
           failure == IF ta.exc # "none" THEN ta.exc
                      ELSE IF ms.exc # "none" THEN ms.exc
                      ELSE ng.exc
       IN  IF failure # "none"
           THEN /\ pc' = "failed"
                /\ exc' = failure
                /\ UNCHANGED <<roster, together, apart, max_size, num_groups>>
           ELSE /\ pc' = "ready"
                /\ exc' = "none"
                /\ together' = ta.together
                /\ apart' = ta.apart
                /\ max_size' = ms.v
                /\ num_groups' = ng.v
                /\ roster' = validate_roster(roster, ta.together, ta.apart)
    /\ chart' = None
    /\ op' = "init"
    /\ ret' = None
    /\ gen' = <<>>
    /\ UNCHANGED nested

\* A variant of the regeneration that drops the cached chart before it
\* generates, so that a generation that raises leaves no chart.
Regenerate_invalidating(r) ==
    /\ exc' = r.exc
    /\ gen' = r.gen
    /\ chart' = IF r.exc = "none" THEN Some(r.gen[3]) ELSE None

\* self.__chart = self.__generate_chart(): the assignment happens only when
\* the generation returns.
Regenerate(r) ==
    /\ exc' = r.exc
    /\ gen' = r.gen
    /\ chart' = IF r.exc = "none" THEN Some(r.gen[3]) ELSE chart

\* The property SeatingChart.chart.
Chart ==
    /\ pc = "ready"
    /\ op' = "chart"
    /\ IF chart = None
       THEN \E r \in generate_chart(self) :
               /\ Regenerate(r)
               /\ ret' = IF r.exc = "none" THEN Some(r.gen[3]) ELSE None
       ELSE /\ exc' = "none"
            /\ gen' = <<>>
            /\ ret' = chart
            /\ UNCHANGED chart
    /\ UNCHANGED <<roster, together, apart, max_size, num_groups, pc, nested>>

\* SeatingChart.new.
New ==
    /\ pc = "ready"
    /\ op' = "new"
    /\ \E r \in generate_chart(self) :
          /\ Regenerate(r)
          /\ ret' = IF r.exc = "none" THEN Some(r.gen[3]) ELSE None
    /\ UNCHANGED <<roster, together, apart, max_size, num_groups, pc, nested>>

\* SeatingChart.update(max_size=ms, num_groups=ng); an argument left at its
\* default False is <<>>, a given value v (None or an int) is <<v>>.
Update(ms, ng) ==
    /\ pc = "ready"
    /\ op' = "update"
    /\ ret' = None
    /\ LET v1 == IF ms = <<>> THEN [exc |-> "none", v |-> max_size]
                 ELSE validate_integer_inputs(ms[1])
           v2 == IF ng = <<>> THEN [exc |-> "none", v |-> num_groups]
                 ELSE validate_integer_inputs(ng[1])
       IN  IF v1.exc # "none"
           THEN /\ exc' = v1.exc
                /\ gen' = <<>>
                /\ UNCHANGED <<max_size, num_groups, chart>>
           ELSE IF v2.exc # "none"
           THEN /\ max_size' = v1.v
                /\ exc' = v2.exc
                /\ gen' = <<>>
                /\ UNCHANGED <<num_groups, chart>>
           ELSE /\ max_size' = v1.v
                /\ num_groups' = v2.v
                /\ \E r \in generate_chart([self EXCEPT !.max_size = v1.v,
                                                        !.num_groups = v2.v]) :
                      Regenerate(r)
    /\ UNCHANGED <<roster, together, apart, pc, nested>>

\* A direct call self.__balance_nested_list(item, nested), as the test suite
\* makes it.
Balance(item) ==
    /\ pc = "ready"
    /\ op = "none"
    /\ op' = "balance"
    /\ LET r == balance_nested_list(self, item, nested)
       IN  /\ exc' = r.exc
           /\ ret' = IF r.exc = "none" THEN Some(r.chart) ELSE None
    /\ UNCHANGED <<roster, together, apart, max_size, num_groups, chart, pc, gen, nested>>

---------------------------------------------------------------------------
(* The arguments drawn.                                                    *)

\* The first n names.
FirstNames(n) == {Names[i] : i \in 1..n}
\* The pairs [x, y] of distinct individuals of I with x before y.
PairsOf(I) == {p \in I \X I : Rank(p[1]) < Rank(p[2])}
\* The pairs [x, y] of distinct individuals of I, in both orders.
OrderedPairsOf(I) == {p \in I \X I : p[1] # p[2]}
\* The lists of at most n elements of S.
Lists(S, n) == UNION {[1..k -> S] : k \in 0..n}
\* An Optional list of at most n elements of S.
OptLists(S, n) == {None} \cup {Some(l) : l \in Lists(S, n)}
\* An Optional int in lo..hi.
OptInts(lo, hi) == {None} \cup {Some(n) : n \in lo..hi}
\* A group of n members named "0", as in the test suite.
Zeros(n) == [i \in 1..n |-> "0"]

\* The together and apart lists of the life-cycle model.
LifeTogether ==
    {None, Some(<<>>), Some(<<<<"A", "B">>>>)}
LifeApart ==
    {None, Some(<<<<"A", "C">>>>)}

InitCommon ==
    /\ chart = None
    /\ op = "none"
    /\ exc = "none"
    /\ ret = None
    /\ gen = <<>>

\* The life cycle of an object: constructed, then read, regenerated, updated.
Init ==
    /\ pc = "args"
    /\ roster \in {None} \cup {Some(SubSeq(Names, 4, 3 + n)) : n \in 0..MaxRoster}
    /\ together \in LifeTogether
    /\ apart \in LifeApart
    /\ max_size \in OptInts(1, MaxSize)
    /\ num_groups \in OptInts(1, MaxGroups)
    /\ nested = <<>>
    /\ InitCommon

Next ==
    \/ Construct
    \/ Chart
    \/ New
    \/ \E ms \in {<<>>} \cup {<<v>> : v \in OptInts(0, MaxSize)},
          ng \in {<<>>} \cup {<<v>> : v \in OptInts(0, MaxGroups)} : Update(ms, ng)

Spec == Init /\ [][Next]_vars

\* The pipeline on its own: an object is constructed and its chart read.
InitPipeline ==
    /\ pc = "args"
    /\ roster = Some(SubSeq(Names, 1, PipeNames + 1))
    /\ together \in OptLists(PairsOf(FirstNames(PipeNames)), PipeTogether)
    /\ apart \in OptLists(PairsOf(FirstNames(PipeNames)), PipeApart)
    /\ max_size \in OptInts(2, PipeSize)
    /\ num_groups = None
    /\ nested = <<>>
    /\ InitCommon

NextPipeline ==
    \/ Construct
    \/ Chart

SpecPipeline == InitPipeline /\ [][NextPipeline]_vars

\* The individuals the pairs of the constructor model name.
CtorIndividuals == {"A", "B", "C"}

\* The constructor on its own.
InitConstruct ==
    /\ pc = "args"
    /\ roster = None
    /\ together \in OptLists(OrderedPairsOf(CtorIndividuals), CtorPairs)
    /\ apart \in OptLists(OrderedPairsOf(CtorIndividuals), CtorPairs)
    /\ max_size \in {None, Some(0)}
    /\ num_groups = None
    /\ nested = <<>>
    /\ InitCommon

NextConstruct == Construct

SpecConstruct == InitConstruct /\ [][NextConstruct]_vars

\* The constructor on rosters in the caller's order (an individual may be
\* listed twice).
InitRoster ==
    /\ pc = "args"
    /\ roster \in OptLists(CtorIndividuals, RosterLen)
    /\ together \in OptLists(PairsOf(CtorIndividuals), RosterPairs)
    /\ apart \in OptLists(OrderedPairsOf(CtorIndividuals), RosterPairs)
    /\ max_size = None
    /\ num_groups = None
    /\ nested = <<>>
    /\ InitCommon

SpecRoster == InitRoster /\ [][NextConstruct]_vars

\* One step of the Balancer on its own, called as the test suite calls it:
\* on a default object whose limits are then set.
InitBalance ==
    /\ pc = "ready"
    /\ roster = None
    /\ together = None
    /\ apart = None
    /\ max_size \in OptInts(1, MaxNestedSize)
    /\ num_groups \in OptInts(1, MaxNestedSize)
    /\ nested \in {[i \in DOMAIN sizes |-> Zeros(sizes[i])] :
                     sizes \in UNION {[1..k -> 1..MaxNestedSize] : k \in 1..MaxNestedGroups}}
    /\ InitCommon

NextBalance == Balance("1")

SpecBalance == InitBalance /\ [][NextBalance]_vars

---------------------------------------------------------------------------
(* Properties of the generated chart (pipeline model).                     *)

\* A generation ran to its end and returned its chart, gen[3].
Generated == Len(gen) = 3 /\ exc = "none"

\* Both members of `pair' are in the group g.
BothIn(pair, g) == pair[1] \in Range(g) /\ pair[2] \in Range(g)

\* The number of places of the chart c that hold x.
Occurrences(c, x) ==
    Cardinality(UNION {{<<i, j>> : j \in {k \in DOMAIN c[i] : c[i][k] = x}} :
                         i \in DOMAIN c})

\* No individual is in two groups of c.
GroupsDisjoint(c) ==
    \A i, j \in DOMAIN c : i # j => Range(c[i]) \cap Range(c[j]) = {}

\* C1: in the chart a generation returns, any group that holds one member of
\* a together pair holds the other as well.
C1_TogetherSameGroup ==
    (Generated /\ together # None) =>
        \A k \in DOMAIN Val(together) : \A i \in DOMAIN gen[3] :
            (Val(together)[k][1] \in Range(gen[3][i]))
                <=> (Val(together)[k][2] \in Range(gen[3][i]))

\* C2: in the chart a generation returns, no group holds both members of an
\* apart pair.
C2_ApartDifferentGroups ==
    (Generated /\ apart # None) =>
        \A k \in DOMAIN Val(apart) : \A i \in DOMAIN gen[3] :
            ~BothIn(Val(apart)[k], gen[3][i])

\* C3: the chart a generation returns is a partition of the roster (every
\* individual of the roster is in it exactly once, nobody else is), and after
\* each stage of that generation no individual is in two groups.
C3_Partition ==
    Generated =>
        /\ Placed(gen[3]) = Range(Val(roster))
        /\ \A x \in Range(Val(roster)) : Occurrences(gen[3], x) = 1
        /\ \A n \in DOMAIN gen : GroupsDisjoint(gen[n])

---------------------------------------------------------------------------
(* Properties of the object's life cycle.                                  *)

\* No group of c is larger than the limit ms (an Optional int).
WithinMaxSize(c, ms) == ms # None => \A i \in DOMAIN c : Len(c[i]) <= Val(ms)

\* The list of pairs is absent or empty.
NoPairs(ps) == ps = None \/ Val(ps) = <<>>

\* C4: with max_size set, a chart that a generation returns has no group
\* larger than max_size; a chart that leaves the Separator with a group
\* larger than max_size is rejected by the Size Checker (ValueError) before
\* the Balancer runs, and the chart the Balancer completes is within max_size.
C4_MaxSizeRespected ==
    max_size # None =>
        /\ Generated => WithinMaxSize(gen[3], max_size) /\ chart = Some(gen[3])
        /\ (Len(gen) >= 2 /\ ~WithinMaxSize(gen[2], max_size))
              => (Len(gen) = 2 /\ exc = "ValueError")
        /\ Len(gen) = 3 => WithinMaxSize(gen[3], max_size)

\* A successful update(max_size=m) whose Balancer filled a group up to m.
C4_Witness ==
    /\ op = "update"
    /\ Generated
    /\ max_size # None
    /\ Placed(gen[3]) # Placed(gen[2])
    /\ \E i \in DOMAIN gen[3] : Len(gen[3][i]) = Val(max_size) /\ Len(gen[2]) >= i
                                   /\ Len(gen[3][i]) > Len(gen[2][i])
    /\ Len(gen[3]) > Len(gen[2])

\* C5: N distinct individuals, no pairs, no max_size and num_groups = K with
\* 1 <= K <= N: the generated chart has exactly K groups.
C5_ExactlyKGroups ==
    (/\ Generated
     /\ NoPairs(together)
     /\ NoPairs(apart)
     /\ max_size = None
     /\ num_groups # None
     /\ Cardinality(Range(Val(roster))) = Len(Val(roster))
     /\ Val(num_groups) <= Len(Val(roster)))
        => Len(gen[3]) = Val(num_groups) /\ chart = Some(gen[3])

\* update(num_groups=2) on two unconstrained individuals gave two groups.
C5_Witness ==
    /\ op = "update"
    /\ Generated
    /\ NoPairs(together) /\ NoPairs(apart)
    /\ max_size = None
    /\ num_groups = Some(2)
    /\ Len(Val(roster)) = 2
    /\ Len(gen[3]) = 2

\* C6: the cached chart changes only by a generation that returns: the first
\* read generates and stores, a later read returns the stored chart and
\* generates nothing, and a new() or update() that raises leaves it as it was.
C6_CacheChangesOnlyOnSuccess ==
    [][/\ (op' = "chart" /\ chart = None /\ exc' = "none")
             => (Len(gen') = 3 /\ chart' = Some(gen'[3]) /\ ret' = chart')
       /\ (op' = "chart" /\ chart # None)
             => (chart' = chart /\ ret' = chart /\ gen' = <<>> /\ exc' = "none")
       /\ (chart' # chart)
             => (/\ op' \in {"chart", "new", "update"}
                 /\ exc' = "none"
                 /\ Len(gen') = 3
                 /\ chart' = Some(gen'[3]))
       /\ (op' \in {"new", "update"} /\ exc' # "none") => chart' = chart
      ]_vars

\* An update() whose generation raised while a chart was cached.
C6_Witness ==
    /\ op = "update"
    /\ exc \notin {"none", "PositiveInteger"}
    /\ gen # <<>>
    /\ chart # None

\* C7: the cached chart, if any, satisfies the current configuration.
C7_ChartMatchesConfiguration ==
    chart # None =>
        /\ WithinMaxSize(Val(chart), max_size)
        /\ num_groups # None => Len(Val(chart)) <= Val(num_groups)

\* C9: N distinct individuals, max_size = 1, no pairs and no num_groups: the
\* generated chart has N groups of one member each.
C9_SingletonGroups ==
    (/\ Generated
     /\ NoPairs(together)
     /\ NoPairs(apart)
     /\ max_size = Some(1)
     /\ num_groups = None
     /\ Cardinality(Range(Val(roster))) = Len(Val(roster)))
        => /\ Len(gen[3]) = Len(Val(roster))
           /\ \A i \in DOMAIN gen[3] : Len(gen[3][i]) = 1
           /\ chart = Some(gen[3])

\* The first read of the chart of two individuals under max_size = 1.
C9_Witness ==
    /\ op = "chart"
    /\ Generated
    /\ NoPairs(together) /\ NoPairs(apart)
    /\ max_size = Some(1)
    /\ num_groups = None
    /\ Len(Val(roster)) = 2
    /\ Len(gen[3]) = 2

---------------------------------------------------------------------------
(* Properties of the constructor.                                          *)

\* Both lists are given and a pair of one names the two individuals of a
\* pair of the other, in either order.
Collide(tg, ap) ==
    /\ tg # None
    /\ ap # None
    /\ \E i \in DOMAIN Val(tg), j \in DOMAIN Val(ap) :
          LET t == Val(tg)[i]
              a == Val(ap)[j]
          IN  \/ t[1] = a[1] /\ t[2] = a[2]
              \/ t[1] = a[2] /\ t[2] = a[1]

\* C8: construction raises GroupConflict exactly when both lists are given
\* and share an unordered pair; otherwise the object that is constructed
\* stores both lists unchanged.
C8_GroupConflictIffCollision ==
    [][pc = "args" =>
          /\ (exc' = "GroupConflict") <=> Collide(together, apart)
          /\ (~Collide(together, apart) /\ pc' = "ready")
                => (together' = together /\ apart' = apart)
      ]_vars

\* GroupConflict was raised for a pair given in the two orders only.
C8_Witness ==
    /\ pc = "failed"
    /\ exc = "GroupConflict"
    /\ \E i \in DOMAIN Val(together), j \in DOMAIN Val(apart) :
          Val(together)[i] = <<Val(apart)[j][2], Val(apart)[j][1]>>
    /\ \A i \in DOMAIN Val(together), j \in DOMAIN Val(apart) :
          Val(together)[i] # Val(apart)[j]

---------------------------------------------------------------------------
(* Properties of one step of the Balancer.                                 *)

\* The first group of minimum size.
FirstSmallest(c) ==
    CHOOSE i \in DOMAIN c :
        /\ \A j \in DOMAIN c : Len(c[i]) <= Len(c[j])
        /\ \A j \in 1..(i - 1) : Len(c[j]) > Len(c[i])

\* C10: on a non-empty chart within max_size, one step (a) appends a new
\* singleton group when num_groups is set and not reached, (b) else appends
\* a new singleton group when max_size is set and every group has that size,
\* (c) else appends the individual to the first smallest group; nothing else
\* changes.
C10_BalancerStep ==
    (op = "balance" /\ nested # <<>> /\ WithinMaxSize(nested, max_size)) =>
        /\ exc = "none"
        /\ ret # None
        /\ IF num_groups # None /\ Len(nested) < Val(num_groups)
           THEN Val(ret) = nested \o <<<<"1">>>>
           ELSE IF /\ max_size # None
                   /\ \A i, j \in DOMAIN nested : Len(nested[i]) = Len(nested[j])
                   /\ Len(nested[1]) = Val(max_size)
           THEN Val(ret) = nested \o <<<<"1">>>>
           ELSE /\ Len(Val(ret)) = Len(nested)
                /\ \A j \in DOMAIN nested :
                      Val(ret)[j] = IF j = FirstSmallest(nested)
                                    THEN nested[j] \o <<"1">>
                                    ELSE nested[j]

\* Sizes [4, 3, 2] with no limits became [4, 3, 3].
C10_Witness ==
    /\ op = "balance"
    /\ max_size = None
    /\ num_groups = None
    /\ nested = <<Zeros(4), Zeros(3), Zeros(2)>>
    /\ ret = Some(<<Zeros(4), Zeros(3), Zeros(2) \o <<"1">>>>)

\* C11: a step on a chart whose largest group exceeds max_size raises
\* GroupConflict when num_groups is set and the chart has more groups than
\* num_groups, and InvalidRequest when only max_size is exceeded.
C11_BalancerFailure ==
    (op = "balance" /\ nested # <<>> /\ ~WithinMaxSize(nested, max_size)) =>
        IF num_groups # None /\ Val(num_groups) < Len(nested)
        THEN exc = "GroupConflict"
        ELSE exc = "InvalidRequest"

---------------------------------------------------------------------------
(* Properties of the roster the constructor stores.                        *)

\* The individuals the Optional list of pairs ps names.
NamedIn(ps) ==
    IF ps = None THEN {}
    ELSE {x \in CtorIndividuals : \E i \in DOMAIN Val(ps) : x = Val(ps)[i][1] \/ x = Val(ps)[i][2]}

\* The individuals of the Optional roster ro.
Listed(ro) == IF ro = None THEN {} ELSE Range(Val(ro))

\* The list l is in lexicographic order and lists nobody twice.
StrictlySorted(l) == \A i, j \in DOMAIN l : i < j => Rank(l[i]) < Rank(l[j])

\* C12 as stated: the stored roster holds everybody the pairs name; it is
\* the caller's roster as given when the pairs name nobody outside it, and
\* the sorted union only when somebody had to be added.
C12_RosterAsGivenUnlessAdded ==
    [][(pc = "args" /\ pc' = "ready") =>
          LET named == NamedIn(together) \cup NamedIn(apart)
          IN  /\ named \subseteq Listed(roster')
              /\ IF named \subseteq Listed(roster)
                 THEN roster' = roster
                 ELSE /\ Listed(roster') = Listed(roster) \cup named
                      /\ StrictlySorted(Val(roster'))
      ]_vars

\* C12 as amended: the stored roster holds everybody the pairs name; it is
\* the caller's roster as given when the pairs name nobody at all, and
\* otherwise the sorted, duplicate-free union of the caller's roster and the
\* individuals named, whether or not somebody had to be added.
C12_RosterSortedWhenPairsNameAnyone ==
    [][(pc = "args" /\ pc' = "ready") =>
          LET named == NamedIn(together) \cup NamedIn(apart)
          IN  /\ named \subseteq Listed(roster')
              /\ IF named = {}
                 THEN roster' = roster
                 ELSE /\ roster' # None
                      /\ Listed(roster') = Listed(roster) \cup named
                      /\ StrictlySorted(Val(roster'))
      ]_vars

\* An object whose pairs name somebody and whose stored roster also holds an
\* individual that only the caller's roster listed.
C12_Witness ==
    /\ pc = "ready"
    /\ op = "init"
    /\ NamedIn(together) \cup NamedIn(apart) # {}
    /\ Listed(roster) \ (NamedIn(together) \cup NamedIn(apart)) # {}
    /\ Len(Val(roster)) = 3

===========================================================================
